---- MODULE Spec2Model ----
(***************************************************************************)
(* napalm_base.validate: the comparison of a driver's getter output (and   *)
(* configuration) against the expected values of a validation file.        *)
(*                                                                         *)
(* Python values are records [t, n, s, l, m]: t is the type ("int",        *)
(* "bool", "none", "str", "unicode", "list", "dict"), n the number of an   *)
(* int or bool, s the text of a str or unicode, l the items of a list, m   *)
(* the key -> value function of a dict.  The fields a type does not use    *)
(* hold 0, "" and << >>.                                                   *)
(***************************************************************************)
EXTENDS Integers, Sequences, FiniteSets, TLC

VInt(i) == [t |-> "int", n |-> i, s |-> "", l |-> <<>>, m |-> <<>>]

VBool(b) == [t |-> "bool", n |-> IF b THEN 1 ELSE 0, s |-> "", l |-> <<>>, m |-> <<>>]

VNone == [t |-> "none", n |-> 0, s |-> "", l |-> <<>>, m |-> <<>>]

VStr(x) == [t |-> "str", n |-> 0, s |-> x, l |-> <<>>, m |-> <<>>]

VUni(x) == [t |-> "unicode", n |-> 0, s |-> x, l |-> <<>>, m |-> <<>>]

VList(items) == [t |-> "list", n |-> 0, s |-> "", l |-> items, m |-> <<>>]

VDict(f) == [t |-> "dict", n |-> 0, s |-> "", l |-> <<>>, m |-> f]

PyTrue == VBool(TRUE)

EmptyMap == <<>>

\* One-entry and two-entry dict literals.
Map1(k, v) == [x \in {k} |-> v]

Map2(k1, v1, k2, v2) == [x \in {k1, k2} |-> IF x = k1 THEN v1 ELSE v2]

IsScalar(v) == v.t \in {"int", "bool", "none", "str", "unicode"}

\* hash(v) succeeds: lists and dicts are unhashable.
Hashable(v) == v.t \notin {"list", "dict"}

\* The order in which a dict's keys are iterated (keys(), iteritems(), repr).
KeyOrder == <<"a", "b", "c", "default", "not_matched", "get_a", "get_b">>

RECURSIVE SeqOfKeys(_, _)
SeqOfKeys(keys, i) ==
    IF i > Len(KeyOrder) THEN <<>>
    ELSE (IF KeyOrder[i] \in keys THEN <<KeyOrder[i]>> ELSE <<>>) \o SeqOfKeys(keys, i + 1)

\* dict.keys()
Keys(f) == SeqOfKeys(DOMAIN f, 1)

\* dict.get(key): None for an absent key.
Get(f, k) == IF k \in DOMAIN f THEN f[k] ELSE VNone

\* bool(v) of an error value: '' , [] and {} are false.
Truthy(v) ==
    CASE v.t \in {"str", "unicode"} -> v.s # ""
      [] v.t = "list" -> Len(v.l) > 0
      [] v.t = "dict" -> DOMAIN v.m # {}
      [] v.t \in {"int", "bool"} -> v.n # 0
      [] OTHER -> FALSE

Digit(d) ==
    CASE d = 0 -> "0" [] d = 1 -> "1" [] d = 2 -> "2" [] d = 3 -> "3" [] d = 4 -> "4"
      [] d = 5 -> "5" [] d = 6 -> "6" [] d = 7 -> "7" [] d = 8 -> "8" [] d = 9 -> "9"

RECURSIVE NatStr(_)
NatStr(i) == IF i < 10 THEN Digit(i) ELSE NatStr(i \div 10) \o Digit(i % 10)

IntStr(i) == IF i < 0 THEN "-" \o NatStr(0 - i) ELSE NatStr(i)

\* a == b of Python 2: bool is an int, str and unicode compare by text.
RECURSIVE PyEq(_, _)
PyEq(a, b) ==
    CASE a.t \in {"int", "bool"} -> b.t \in {"int", "bool"} /\ a.n = b.n
      [] a.t \in {"str", "unicode"} -> b.t \in {"str", "unicode"} /\ a.s = b.s
      [] a.t = "none" -> b.t = "none"
      [] a.t = "list" ->
            /\ b.t = "list"
            /\ Len(a.l) = Len(b.l)
            /\ \A i \in 1..Len(a.l) : PyEq(a.l[i], b.l[i])
      [] a.t = "dict" ->
            /\ b.t = "dict"
            /\ DOMAIN a.m = DOMAIN b.m
            /\ \A k \in DOMAIN a.m : PyEq(a.m[k], b.m[k])

\* repr(v) and str(v); a container shows the repr of its items.
RECURSIVE PyRepr(_)
RECURSIVE ReprItems(_, _)
RECURSIVE ReprPairs(_, _, _)
PyRepr(v) ==
    CASE v.t = "int" -> IntStr(v.n)
      [] v.t = "bool" -> IF v.n = 1 THEN "True" ELSE "False"
      [] v.t = "none" -> "None"
      [] v.t = "str" -> "'" \o v.s \o "'"
      [] v.t = "unicode" -> "u'" \o v.s \o "'"
      [] v.t = "list" -> "[" \o ReprItems(v.l, 1) \o "]"
      [] v.t = "dict" -> "{" \o ReprPairs(v.m, Keys(v.m), 1) \o "}"

ReprItems(items, i) ==
    IF i > Len(items) THEN ""
    ELSE PyRepr(items[i]) \o (IF i < Len(items) THEN ", " ELSE "") \o ReprItems(items, i + 1)

ReprPairs(f, ks, i) ==
    IF i > Len(ks) THEN ""
    ELSE "'" \o ks[i] \o "': " \o PyRepr(f[ks[i]])
         \o (IF i < Len(ks) THEN ", " ELSE "") \o ReprPairs(f, ks, i + 1)

PyStr(v) == IF v.t \in {"str", "unicode"} THEN v.s ELSE PyRepr(v)

\* The outcome of a call: the value returned, or the exception raised.
Ok(v) == [exc |-> "", val |-> v]

Raise(e) == [exc |-> e, val |-> VNone]

\* raise ValidationException(message)
RaiseValidation(message) == [exc |-> "ValidationException", val |-> VStr(message)]

\* The characters of the strings the model uses (iterating a str yields them).
Chars(x) ==
    CASE x = "" -> <<>>
      [] x = "42" -> <<"4", "2">>
      [] x = "43" -> <<"4", "3">>
      [] x = "l1" -> <<"l", "1">>
      [] x = "l2" -> <<"l", "2">>
      [] x = "l3" -> <<"l", "3">>
      [] OTHER -> <<x>>

RECURSIVE KeyValues(_, _)
KeyValues(ks, i) == IF i > Len(ks) THEN <<>> ELSE <<VStr(ks[i])>> \o KeyValues(ks, i + 1)

RECURSIVE CharValues(_, _, _)
CharValues(cs, i, ty) ==
    IF i > Len(cs) THEN <<>>
    ELSE <<[VStr(cs[i]) EXCEPT !.t = ty]>> \o CharValues(cs, i + 1, ty)

\* iter(v): the items of a list, the keys of a dict, the characters of a string.
Iterable(v) == v.t \in {"list", "dict", "str", "unicode"}

Iter(v) ==
    CASE v.t = "list" -> v.l
      [] v.t = "dict" -> KeyValues(Keys(v.m), 1)
      [] v.t \in {"str", "unicode"} -> CharValues(Chars(v.s), 1, v.t)
      [] OTHER -> <<>>

AllHashable(f) == \A k \in DOMAIN f : Hashable(f[k])

\* dict(set(expected.iteritems()).difference(actual.iteritems())): the keys of
\* the expected pairs that are not pairs of actual.
Delta(expected, actual) ==
    {k \in DOMAIN expected : ~(k \in DOMAIN actual /\ PyEq(expected[k], actual[k]))}

\* _handle_unicode_int
HandleUnicodeInt(actual_values, expected_values) ==
    IF PyStr(actual_values) # PyStr(expected_values)
    THEN VStr("Expected '" \o PyStr(expected_values) \o "', found '"
              \o PyStr(actual_values) \o "' instead")
    ELSE VStr("")

\* The mutation of DeltaMessage that names the values without the key.
DeltaMessageNoKey(delta_key, expected, actual) ==
    VStr("Expected '" \o PyStr(expected[delta_key]) \o "', found '"
         \o PyStr(actual[delta_key]) \o "' instead")

\* The message of one pair of the fast path of _handle_dict.
DeltaMessage(delta_key, expected, actual) ==
    VStr("Expected '" \o delta_key \o ": " \o PyStr(expected[delta_key]) \o "', found '"
         \o delta_key \o ": " \o PyStr(actual[delta_key]) \o "' instead")

RECURSIVE DeltaMessages(_, _, _, _)
DeltaMessages(ks, i, expected, actual) ==
    IF i > Len(ks) THEN <<>>
    ELSE <<DeltaMessage(ks[i], expected, actual)>> \o DeltaMessages(ks, i + 1, expected, actual)

\* The fast path of _handle_dict (no TypeError): actual_values[delta_key]
\* raises KeyError for an expected key that actual does not have.
HandleDictFast(actual, expected) ==
    LET delta == Delta(expected, actual)
    IN  IF \E k \in delta : k \notin DOMAIN actual
        THEN Raise("KeyError")
        ELSE Ok(VList(DeltaMessages(SeqOfKeys(delta, 1), 1, expected, actual)))

ListMessage(value) == VStr("Expected but not found: " \o PyStr(value))

\* The inner loop of _handle_list for a dict element of expected: the exception
\* of the first element of actual whose set difference cannot be computed, or
\* whether some element of actual holds every pair of value.
RECURSIVE ScanActual(_, _, _, _)
ScanActual(value, items, i, found) ==
    IF i > Len(items) THEN [exc |-> "", found |-> found]
    ELSE IF ~AllHashable(value.m) THEN [exc |-> "TypeError", found |-> found]
    ELSE IF items[i].t # "dict" THEN [exc |-> "AttributeError", found |-> found]
    ELSE IF ~AllHashable(items[i].m) THEN [exc |-> "TypeError", found |-> found]
    ELSE ScanActual(value, items, i + 1, found \/ Delta(value.m, items[i].m) = {})

\* value in actual_values
Contains(items, value) == \E i \in 1..Len(items) : PyEq(items[i], value)

\* The loop of _handle_list: not_matched_string is set when an element is not
\* found and is never cleared.
RECURSIVE ListLoop(_, _, _, _, _)
ListLoop(exp, i, items, not_matched_string, not_matched) ==
    IF i > Len(exp) THEN Ok(VList(not_matched))
    ELSE LET value == exp[i]
             scan == IF value.t = "dict" THEN ScanActual(value, items, 1, FALSE)
                     ELSE [exc |-> "", found |-> Contains(items, value)]
             str == IF scan.found THEN not_matched_string ELSE ListMessage(value)
         IN  IF scan.exc # "" THEN Raise(scan.exc)
             ELSE ListLoop(exp, i + 1, items, str,
                           IF Truthy(str) THEN Append(not_matched, str) ELSE not_matched)

\* _handle_list
HandleList(actual_values, expected_values) ==
    IF ~Iterable(expected_values) THEN Raise("TypeError")
    ELSE ListLoop(Iter(expected_values), 1, actual_values.l, VStr(""), <<>>)

RECURSIVE FindDifferences(_, _, _)
RECURSIVE HandleDict(_, _)
RECURSIVE DictLoop(_, _, _, _, _)

\* The per-key loop of _handle_dict (after a TypeError of the set difference).
DictLoop(ks, i, actual, expected, not_matched_dict) ==
    IF i > Len(ks) THEN Ok(VDict(not_matched_dict))
    ELSE LET key == ks[i]
             r == FindDifferences(key, Get(actual, key), expected)
         IN  IF r.exc # "" THEN r
             ELSE DictLoop(ks, i + 1, actual, expected,
                           IF Truthy(r.val)
                           THEN [k \in DOMAIN not_matched_dict \cup {key} |->
                                    IF k = key THEN r.val ELSE not_matched_dict[k]]
                           ELSE not_matched_dict)

\* _handle_dict
HandleDict(actual_values, expected_values) ==
    IF expected_values.t # "dict" THEN Raise("AttributeError")
    ELSE IF AllHashable(expected_values.m) /\ AllHashable(actual_values.m)
    THEN HandleDictFast(actual_values.m, expected_values.m)
    ELSE DictLoop(Keys(expected_values.m), 1, actual_values.m, expected_values.m, EmptyMap)

\* _find_differences
FindDifferences(key, actual_value, expected_values) ==
    CASE actual_value.t = "dict" -> HandleDict(actual_value, expected_values[key])
      [] actual_value.t \in {"unicode", "int", "bool"} ->
            Ok(HandleUnicodeInt(actual_value, expected_values[key]))
      [] actual_value.t = "list" -> HandleList(actual_value, expected_values[key])
      [] actual_value.t = "none" -> Ok(VStr("Expected key but not found."))
      [] OTHER -> Ok(VStr(""))

(***************************************************************************)
(* validate(cls, getters, config, validation_file)                         *)
(***************************************************************************)
VARIABLES
    cls,                \* the driver: dir(cls), what each getter returns, get_config()
    validation_file,    \* the YAML file: its state and its parsed content
    getters,            \* the getters argument: None, a str or a list of names
    config,             \* the config argument: << >> is None, <<region>> a region
    validation_source,  \* the loaded validation file
    pc,                 \* where validate() is
    idx,                \* the position of the getter loop in getters
    errors,             \* the errors dict of validate()
    calls,              \* the accesses made so far: the file and the driver's methods
    result,             \* the outcome of validate(): the value returned or the exception
    driver,             \* a MockDriver: opened, calls, and what always_alive reads of it
    history,            \* the operations made on the driver, in order
    outcome,            \* what the last attribute access gave: the exception or the file
    wrapper             \* the last call of a method wrapped by always_alive

validateVars == <<cls, validation_file, getters, config, validation_source, pc, idx, errors,
                  calls, result>>

driverVars == <<driver, history, outcome, wrapper>>

vars == <<cls, validation_file, getters, config, validation_source, pc, idx, errors,
          calls, result, driver, history, outcome, wrapper>>

\* getter.startswith('get_'), for the names of the model.
StartsWithGet(name) == name \in {"get_a", "get_b", "get_x", "get_config"}

\* bool(getters): None, '' and [] are false.
GettersGiven == getters.kind # "none" /\ getters.names # <<>>

ConfigGiven == config # <<>>

\* The mutation of CheckGettersOk that checks the first name only.
CheckGettersOkFirst(names) ==
    StartsWithGet(names[1]) /\ names[1] \in cls.attrs

\* _check_getters: the first name that is not a get_ method of cls raises.
CheckGettersOk(names) ==
    \A i \in 1..Len(names) : StartsWithGet(names[i]) /\ names[i] \in cls.attrs

\* The first name of getters that _check_getters rejects.
RECURSIVE RejectedGetter(_, _)
RejectedGetter(names, i) ==
    IF StartsWithGet(names[i]) /\ names[i] \in cls.attrs /\ i < Len(names)
    THEN RejectedGetter(names, i + 1)
    ELSE names[i]

\* _check_config
CheckConfigOk(region) == region \in {"running", "candidate"}

\* The mutation of Lookup that takes an empty expected value for a missing key.
LookupOrEmpty(source, key) ==
    IF key \in DOMAIN source THEN Ok(source[key]) ELSE Ok(VDict(EmptyMap))

\* try: validation_source[key]  except KeyError: raise ValidationException
Lookup(source, key) ==
    IF key \in DOMAIN source THEN Ok(source[key])
    ELSE RaiseValidation(key \o " key not found in validation file. Check your syntax.")

\* The mutation of ConfigBranch to 'if config:'.
ConfigBranchIf == ConfigGiven

\* elif config: the configuration is checked when getters is false.
ConfigBranch == ~GettersGiven /\ ConfigGiven

\* The mutation of KeyNotMatched that appends every result.
KeyNotMatchedAppend(not_matched_result) ==
    IF ~Truthy(not_matched_result) THEN <<>> ELSE <<not_matched_result>>

\* The body of the loop over expected_results.keys() in validate(): the list
\* stored at key, empty when nothing is stored.
KeyNotMatched(not_matched_result) ==
    IF ~Truthy(not_matched_result) THEN <<>>
    ELSE IF not_matched_result.t \in {"dict", "str"} THEN <<not_matched_result>>
    ELSE Iter(not_matched_result)

RECURSIVE KeyLoop(_, _, _, _, _)
KeyLoop(ks, i, actual_results, expected_results, not_matched_getter) ==
    IF i > Len(ks) THEN Ok(VDict(not_matched_getter))
    ELSE LET key == ks[i]
             r == FindDifferences(key, Get(actual_results, key), expected_results)
             not_matched == KeyNotMatched(r.val)
         IN  IF r.exc # "" THEN r
             ELSE KeyLoop(ks, i + 1, actual_results, expected_results,
                          IF not_matched # <<>>
                          THEN [k \in DOMAIN not_matched_getter \cup {key} |->
                                   IF k = key THEN VList(not_matched)
                                   ELSE not_matched_getter[k]]
                          ELSE not_matched_getter)

\* One getter of validate(), from the call of the getter to not_matched_getter:
\* a list returned by the getter is wrapped, with the expected value, under
\* 'not_matched'.
CompareGetter(expected_results, actual_results) ==
    LET wrap == actual_results.t = "list"
        actual == IF wrap THEN VDict(Map1("not_matched", actual_results)) ELSE actual_results
        expected == IF wrap THEN VDict(Map1("not_matched", expected_results))
                    ELSE expected_results
    IN  IF expected.t # "dict" THEN Raise("AttributeError")
        ELSE IF DOMAIN expected.m # {} /\ actual.t # "dict" THEN Raise("AttributeError")
        ELSE KeyLoop(Keys(expected.m), 1, actual.m, expected.m, EmptyMap)

\* for config_line in expected_config: the lines that are not in actual_config.
RECURSIVE ConfigLoop(_, _, _)
ConfigLoop(actual_config, expected_config, i) ==
    IF i > Len(expected_config) THEN <<>>
    ELSE (IF Contains(actual_config, expected_config[i]) THEN <<>>
          ELSE <<expected_config[i]>>)
         \o ConfigLoop(actual_config, expected_config, i + 1)

\* The mutation of FindConfigDifferences that reports the first missing line only.
FindConfigDifferencesFirst(actual_config, expected_config) ==
    LET not_matched == ConfigLoop(actual_config, expected_config, 1)
    IN  IF not_matched = <<>> THEN <<>> ELSE <<not_matched[1]>>

\* _find_config_differences
FindConfigDifferences(actual_config, expected_config) ==
    ConfigLoop(actual_config, expected_config, 1)

ConfigLabel(region) == "Expected but not found in " \o region \o " config"

\* The mutation of StoreGetter that stores an empty not_matched_getter too.
StoreGetterAlways(errs, getter, not_matched_getter) ==
    [g \in DOMAIN errs \cup {getter} |-> IF g = getter THEN not_matched_getter ELSE errs[g]]

\* if not_matched_getter: errors[getter] = not_matched_getter
StoreGetter(errs, getter, not_matched_getter) ==
    IF Truthy(not_matched_getter)
    THEN [g \in DOMAIN errs \cup {getter} |-> IF g = getter THEN not_matched_getter ELSE errs[g]]
    ELSE errs

\* if getters: getters = _check_getters(cls, getters)
CheckGetters ==
    /\ pc = "check_getters"
    /\ IF ~GettersGiven
       THEN /\ pc' = "check_config"
            /\ UNCHANGED <<getters, result>>
       ELSE IF CheckGettersOk(getters.names)
       THEN /\ pc' = "check_config"
            /\ getters' = [kind |-> "list", names |-> getters.names]
            /\ UNCHANGED result
       ELSE /\ pc' = "raised"
            /\ result' = RaiseValidation(RejectedGetter(getters.names, 1)
                                         \o " method not found.")
            /\ UNCHANGED getters
    /\ UNCHANGED driverVars
    /\ UNCHANGED <<cls, validation_file, config, validation_source, idx, errors, calls>>

\* if config: _check_config(config)
CheckConfig ==
    /\ pc = "check_config"
    /\ IF ConfigGiven /\ ~CheckConfigOk(config[1])
       THEN /\ pc' = "raised"
            /\ result' = RaiseValidation(config[1] \o " config not supported. Only "
                                         \o "running or candidate are allowed")
       ELSE /\ pc' = "get_validation_file"
            /\ UNCHANGED result
    /\ UNCHANGED driverVars
    /\ UNCHANGED <<cls, validation_file, getters, config, validation_source, idx, errors,
                   calls>>

\* validation_source = _get_validation_file(validation_file)
GetValidationFile ==
    /\ pc = "get_validation_file"
    /\ calls' = Append(calls, "open_file")
    /\ IF validation_file.state = "ok"
       THEN /\ validation_source' = validation_file.content
            /\ pc' = "run"
            /\ UNCHANGED result
       ELSE /\ pc' = "raised"
            /\ result' = RaiseValidation(IF validation_file.state = "missing"
                                         THEN "File not found." ELSE "YAMLError")
            /\ UNCHANGED validation_source
    /\ UNCHANGED driverVars
    /\ UNCHANGED <<cls, validation_file, getters, config, idx, errors>>

\* One iteration of: for getter in getters
GetterStep ==
    /\ pc = "run"
    /\ GettersGiven
    /\ idx <= Len(getters.names)
    /\ LET getter == getters.names[idx]
           expected_results == Lookup(validation_source, getter)
       IN  IF expected_results.exc # ""
           THEN /\ pc' = "raised"
                /\ result' = expected_results
                /\ UNCHANGED <<idx, errors, calls>>
           ELSE LET r == CompareGetter(expected_results.val, cls.out[getter])
                IN  /\ calls' = Append(calls, getter)
                    /\ IF r.exc # ""
                       THEN /\ pc' = "raised"
                            /\ result' = r
                            /\ UNCHANGED <<idx, errors>>
                       ELSE /\ idx' = idx + 1
                            /\ errors' = StoreGetter(errors, getter, r.val)
                            /\ UNCHANGED <<pc, result>>
    /\ UNCHANGED driverVars
    /\ UNCHANGED <<cls, validation_file, getters, config, validation_source>>

\* elif config:
ConfigStep ==
    /\ pc = "run"
    /\ ConfigBranch
    /\ LET region == config[1]
           expected_config == Lookup(validation_source, region)
       IN  IF expected_config.exc # ""
           THEN /\ pc' = "raised"
                /\ result' = expected_config
                /\ UNCHANGED <<errors, calls>>
           ELSE LET not_matched_result ==
                        FindConfigDifferences(cls.conf[region].l, expected_config.val.l)
                IN  /\ calls' = Append(calls, "get_config")
                    /\ pc' = "return"
                    /\ errors' = IF not_matched_result # <<>>
                                 THEN Map1(ConfigLabel(region), VList(not_matched_result))
                                 ELSE errors
                    /\ UNCHANGED result
    /\ UNCHANGED driverVars
    /\ UNCHANGED <<cls, validation_file, getters, config, validation_source, idx>>

\* if not errors: return True; else: return errors
Return ==
    /\ \/ pc = "return"
       \/ pc = "run" /\ GettersGiven /\ idx > Len(getters.names)
       \/ pc = "run" /\ ~GettersGiven /\ ~ConfigGiven
    /\ pc' = "done"
    /\ result' = IF DOMAIN errors = {} THEN Ok(PyTrue) ELSE Ok(VDict(errors))
    /\ UNCHANGED driverVars
    /\ UNCHANGED <<cls, validation_file, getters, config, validation_source, idx, errors,
                   calls>>

Next ==
    \/ CheckGetters
    \/ CheckConfig
    \/ GetValidationFile
    \/ GetterStep
    \/ ConfigStep
    \/ Return

(***************************************************************************)
(* MockDriver (mock.py) and always_alive (decorators.py)                   *)
(***************************************************************************)
\* is_mocked_method
IsMockedMethod(method) == StartsWithGet(method)

\* The get_ methods that class NetworkDriver defines, among the names of the model.
NetworkDriverMethods == {"get_a", "get_b", "get_config"}

\* The mutation of CountCalls that forgets the current count.
CountCallsOnce(counts, name) ==
    [n \in DOMAIN counts \cup {name} |-> IF n = name THEN 1 ELSE counts[n]]

\* MockDriver._count_calls: the calls dict after the call; the count returned
\* is its entry for name.
CountCalls(counts, name) ==
    [n \in DOMAIN counts \cup {name} |->
        IF n = name THEN (IF name \in DOMAIN counts THEN counts[name] ELSE 0) + 1
        ELSE counts[n]]

\* mocked_method: getattr(NetworkDriver, name) raises for a name the class does
\* not have; the method returned reads the file '<path>/<name>.<count>'.
MockedMethod(name, count) ==
    IF name \notin NetworkDriverMethods THEN [exc |-> "AttributeError", file |-> ""]
    ELSE [exc |-> "", file |-> name \o "." \o NatStr(count)]

\* obj.is_alive(): MockDriver returns the report {'is_alive': self.opened};
\* an object of the other kind returns the flag itself.
IsAlive(obj) ==
    IF obj.report = "dict" THEN VDict(Map1("is_alive", VBool(obj.opened)))
    ELSE VBool(obj.opened)

\* _connection_alive: is_alive() when obj has is_alive and a true
\* auto_reconnect, the default True otherwise.
ConnectionAlive(obj) ==
    IF {"is_alive", "auto_reconnect"} \subseteq obj.attrs /\ obj.auto_reconnect
    THEN IsAlive(obj)
    ELSE PyTrue

OpenCall == [call |-> "open", args |-> ""]

FunCall(args) == [call |-> "fun", args |-> args]

\* The most operations made on one driver.
MaxOps == 5

\* The names accessed on the driver.
AccessNames == {"get_a", "get_x", "hostname"}

\* The arguments of the wrapped calls.
Args == {"x", "y"}

\* MockDriver.open
Open ==
    /\ Len(history) < MaxOps
    /\ driver' = [driver EXCEPT !.opened = TRUE]
    /\ history' = Append(history, "open")
    /\ UNCHANGED <<outcome, wrapper>>
    /\ UNCHANGED validateVars

\* MockDriver.close
Close ==
    /\ Len(history) < MaxOps
    /\ driver' = [driver EXCEPT !.opened = FALSE]
    /\ history' = Append(history, "close")
    /\ UNCHANGED <<outcome, wrapper>>
    /\ UNCHANGED validateVars

\* MockDriver.__getattribute__
GetAttribute ==
    /\ Len(history) < MaxOps
    /\ \E name \in AccessNames :
        /\ history' = Append(history, name)
        /\ IF IsMockedMethod(name)
           THEN IF ~driver.opened
                THEN /\ outcome' = [exc |-> "ConnectionClosedException", file |-> ""]
                     /\ UNCHANGED driver
                ELSE LET counts == CountCalls(driver.calls, name)
                     IN  /\ driver' = [driver EXCEPT !.calls = counts]
                         /\ outcome' = MockedMethod(name, counts[name])
           ELSE /\ outcome' = [exc |-> "", file |-> ""]
                /\ UNCHANGED driver
    /\ UNCHANGED wrapper
    /\ UNCHANGED validateVars

\* _always_alive_wrapper: a call of a method of the driver that always_alive wraps.
AlwaysAliveWrapper ==
    /\ Len(history) < MaxOps
    /\ \E args \in Args :
        LET _alive == ConnectionAlive(driver)
        IN  IF ~Truthy(_alive)
            THEN /\ driver' = [driver EXCEPT !.opened = TRUE]
                 /\ history' = Append(history, "open")
                 /\ wrapper' = [down |-> ~driver.opened, args |-> args,
                                log |-> <<OpenCall, FunCall(args)>>]
            ELSE /\ wrapper' = [down |-> ~driver.opened, args |-> args,
                                log |-> <<FunCall(args)>>]
                 /\ UNCHANGED <<driver, history>>
    /\ UNCHANGED outcome
    /\ UNCHANGED validateVars

NextDriver ==
    \/ Open
    \/ Close
    \/ GetAttribute
    \/ AlwaysAliveWrapper

(***************************************************************************)
(* The calls of validate() that are checked                                *)
(***************************************************************************)
\* The longest list (of expected or actual items) of the comparisons.
MaxLen == 2

\* The longest getters list.
MaxGetters == 2

RECURSIVE SeqsUpTo(_, _)
SeqsUpTo(S, n) ==
    IF n = 0 THEN {<<>>}
    ELSE LET shorter == SeqsUpTo(S, n - 1)
         IN  shorter \cup {Append(q, x) : q \in {r \in shorter : Len(r) = n - 1}, x \in S}

\* All dicts with keys among K and values in S.
DictsOver(K, S) == {VDict(f) : f \in UNION {[J -> S] : J \in SUBSET K}}

\* Text is unicode, as json.loads and the drivers give it.
Scalars == {VInt(1), VBool(TRUE), VInt(42), VUni("42"), VNone, VUni("a")}

DictValues == Scalars \cup {VList(<<VInt(1)>>), VDict(Map1("a", VInt(1)))}

NestedDicts == DictsOver({"a", "b"}, DictValues)

ListItems ==
    {VInt(1), VInt(42), VUni("42"), VDict(Map1("a", VInt(1))),
     VDict(Map2("a", VInt(1), "b", VInt(42))),
     VDict(Map2("a", VInt(1), "b", VList(<<VInt(1)>>)))}

Lists == {VList(q) : q \in SeqsUpTo(ListItems, MaxLen)}

SomeContainers ==
    {VDict(EmptyMap), VDict(Map1("a", VInt(1))), VList(<<>>), VList(<<VInt(1)>>),
     VList(<<VUni("42")>>)}

\* The (expected, actual) pairs compared under one key.
ValuePairs ==
    (NestedDicts \X NestedDicts) \cup (Lists \X Lists) \cup (Scalars \X Scalars)
    \cup (Scalars \X SomeContainers) \cup (SomeContainers \X Scalars)
    \cup (SomeContainers \X SomeContainers)

\* The (expected_results, getter output) pairs of one getter.
GetterPairs ==
    {<<VDict(Map1("a", p[1])), VDict(Map1("a", p[2]))>> : p \in ValuePairs}
    \cup {<<VDict(Map1("a", x)), VDict(EmptyMap)>> : x \in Scalars \cup SomeContainers}
    \cup (Lists \X Lists)
    \cup (SomeContainers \X SomeContainers)

Names == {"get_a", "get_b", "get_x", "open"}

GetterArgs ==
    {[kind |-> "none", names |-> <<>>]}
    \cup {[kind |-> "str", names |-> <<n>>] : n \in Names}
    \cup {[kind |-> "list", names |-> q] : q \in SeqsUpTo(Names, MaxGetters)}

ConfigArgs == {<<>>, <<"running">>, <<"candidate">>, <<"startup">>}

Driver(out_a, out_b, running) ==
    [attrs |-> {"get_a", "get_b", "get_config", "open", "close"},
     out |-> Map2("get_a", out_a, "get_b", out_b),
     conf |-> Map2("running", running, "candidate", VList(<<>>))]

SmallExpected == {VDict(Map1("a", VInt(1))), VDict(Map1("a", VInt(42)))}

SmallActual == {VDict(Map1("a", VInt(1))), VList(<<VInt(1)>>)}

ConfigLines == {VList(<<VStr("l1")>>), VList(<<VStr("l2"), VStr("l1")>>)}

\* What get_config() returns for the running configuration.
ActualConfigs ==
    {VList(<<VUni("l1")>>), VList(<<VUni("l2"), VUni("l1")>>), VList(<<VUni("l3")>>)}

\* The validation files of the calls that vary the arguments.
SmallSources ==
    {f \in UNION {[J -> SmallExpected \cup ConfigLines] : J \in SUBSET {"get_a", "get_b", "running"}} :
        /\ \A g \in DOMAIN f \cap {"get_a", "get_b"} : f[g] \in SmallExpected
        /\ "running" \in DOMAIN f => f["running"] \in ConfigLines}

\* MockDriver.__init__, with what always_alive reads of the object: whether it
\* has is_alive and auto_reconnect, the value of auto_reconnect and the kind of
\* value that is_alive returns.
NewDriver(attrs, auto_reconnect, report) ==
    [opened |-> FALSE, calls |-> EmptyMap, attrs |-> attrs,
     auto_reconnect |-> auto_reconnect, report |-> report]

NoOperation ==
    /\ history = <<>>
    /\ outcome = [exc |-> "", file |-> ""]
    /\ wrapper = [down |-> FALSE, args |-> "", log |-> <<>>]

StartOfValidate ==
    /\ validation_source = EmptyMap
    /\ pc = "check_getters"
    /\ idx = 1
    /\ errors = EmptyMap
    /\ calls = <<>>
    /\ result = Ok(VNone)
    /\ driver = NewDriver({}, FALSE, "dict")
    /\ NoOperation

\* Calls that vary the arguments, the file and the driver over small values.
InitArguments ==
    /\ getters \in GetterArgs
    /\ config \in ConfigArgs
    /\ \/ validation_file \in {[state |-> st, content |-> EmptyMap] : st \in {"missing", "invalid"}}
       \/ validation_file \in {[state |-> "ok", content |-> f] : f \in SmallSources}
    /\ cls \in {Driver(x, y, c) : x \in SmallActual, y \in SmallActual, c \in ActualConfigs}
    /\ StartOfValidate

\* Calls for one getter that vary the expected and the actual value.
InitValues ==
    /\ getters = [kind |-> "list", names |-> <<"get_a">>]
    /\ config = <<>>
    /\ \E p \in GetterPairs :
        /\ validation_file = [state |-> "ok", content |-> Map1("get_a", p[1])]
        /\ cls = Driver(p[2], VDict(EmptyMap), VList(<<>>))
    /\ StartOfValidate

Init == InitArguments \/ InitValues

Spec == Init /\ [][Next]_vars

\* The drivers: a MockDriver as it is, one given an auto_reconnect, and objects
\* that lack is_alive or whose is_alive returns the flag.
Drivers ==
    {NewDriver({"is_alive"}, FALSE, "dict"),
     NewDriver({"is_alive", "auto_reconnect"}, FALSE, "dict"),
     NewDriver({"is_alive", "auto_reconnect"}, TRUE, "dict"),
     NewDriver({"is_alive", "auto_reconnect"}, TRUE, "bool"),
     NewDriver({"auto_reconnect"}, TRUE, "bool")}

\* A new driver; validate() is not running.
InitDriver ==
    /\ driver \in Drivers
    /\ NoOperation
    /\ cls = Driver(VDict(EmptyMap), VDict(EmptyMap), VList(<<>>))
    /\ validation_file = [state |-> "missing", content |-> EmptyMap]
    /\ getters = [kind |-> "none", names |-> <<>>]
    /\ config = <<>>
    /\ validation_source = EmptyMap
    /\ pc = "idle"
    /\ idx = 1
    /\ errors = EmptyMap
    /\ calls = <<>>
    /\ result = Ok(VNone)

SpecDriver == InitDriver /\ [][NextDriver]_vars

(***************************************************************************)
(* Properties                                                              *)
(***************************************************************************)
Returned == pc = "done"

Finished == pc \in {"done", "raised"}

\* The names validate() was asked to check.
Requested == {getters.names[i] : i \in 1..Len(getters.names)}

\* The expected and the actual value of a getter as validate() compares them.
Wrapped(g) == cls.out[g].t = "list"

ExpectedOf(g) ==
    IF Wrapped(g) THEN Map1("not_matched", validation_file.content[g])
    ELSE validation_file.content[g].m

ActualOf(g) ==
    IF Wrapped(g) THEN Map1("not_matched", cls.out[g]) ELSE cls.out[g].m

\* The comparison of getter g finds a mismatch at some key of the expected value.
MismatchFound(g) ==
    \E key \in DOMAIN ExpectedOf(g) :
        Truthy(FindDifferences(key, Get(ActualOf(g), key), ExpectedOf(g)).val)

ConfigMismatch ==
    \E i \in 1..Len(validation_source[config[1]].l) :
        ~Contains(cls.conf[config[1]].l, validation_source[config[1]].l[i])

C2_Case(k1, k2) ==
    /\ Finished
    /\ getters.names = <<"get_a">>
    /\ calls = <<"open_file", "get_a">>
    /\ validation_file.content["get_a"].t = "dict"
    /\ cls.out["get_a"].t = "dict"
    /\ DOMAIN ExpectedOf("get_a") = {k1}
    /\ DOMAIN ActualOf("get_a") = {k1}
    /\ ExpectedOf("get_a")[k1].t = "dict"
    /\ ActualOf("get_a")[k1].t = "dict"
    /\ DOMAIN ExpectedOf("get_a")[k1].m = {k2}
    /\ DOMAIN ActualOf("get_a")[k1].m = {k2}
    /\ IsScalar(ExpectedOf("get_a")[k1].m[k2])
    /\ IsScalar(ActualOf("get_a")[k1].m[k2])

C2_E(k1, k2) == ExpectedOf("get_a")[k1].m[k2]

C2_A(k1, k2) == ActualOf("get_a")[k1].m[k2]

C3_AllKeysChecked ==
    (/\ Returned
     /\ getters.kind = "none"
     /\ config = <<>>
     /\ \E g \in DOMAIN validation_source \cap {"get_a", "get_b"} : MismatchFound(g))
        => result.val # PyTrue

\* The finished calls with the one getter get_a that called it and compared its
\* output with the expected value of the file.
OneGetter ==
    /\ Finished
    /\ getters.names = <<"get_a">>
    /\ calls = <<"open_file", "get_a">>

\* Both the expected value and the output of get_a are dicts.
DictGetter ==
    /\ OneGetter
    /\ validation_file.content["get_a"].t = "dict"
    /\ cls.out["get_a"].t = "dict"

\* What validate() returned for key k of get_a: the items of the list at k,
\* none when the key is not in the result.
ReportedAt(k) ==
    IF /\ Returned
       /\ result.val.t = "dict"
       /\ "get_a" \in DOMAIN result.val.m
       /\ k \in DOMAIN result.val.m["get_a"].m
    THEN result.val.m["get_a"].m[k].l
    ELSE <<>>

InSeq(q, x) == \E i \in 1..Len(q) : q[i] = x

MissingKeyMessage == VStr("Expected key but not found.")

\* Key k1 holds a dict in both the expected value and the output of get_a.
NestedDictAt(k1) ==
    /\ DictGetter
    /\ k1 \in DOMAIN ExpectedOf("get_a") \cap DOMAIN ActualOf("get_a")
    /\ ExpectedOf("get_a")[k1].t = "dict"
    /\ ActualOf("get_a")[k1].t = "dict"

\* C4: an expected key k that the actual mapping does not have is reported as
\* 'Expected key but not found.' at k and nothing is raised, whether k is
\* directly under the getter or in a nested mapping (of scalars or not).
C4_MissingKeyReported ==
    /\ DictGetter =>
          \A k \in DOMAIN ExpectedOf("get_a") \ DOMAIN ActualOf("get_a") :
              Returned /\ InSeq(ReportedAt(k), MissingKeyMessage)
    /\ \A k1 \in {"a"} :
          NestedDictAt(k1) =>
              \A k \in DOMAIN ExpectedOf("get_a")[k1].m \ DOMAIN ActualOf("get_a")[k1].m :
                  /\ Returned
                  /\ \E i \in 1..Len(ReportedAt(k1)) :
                        /\ ReportedAt(k1)[i].t = "dict"
                        /\ k \in DOMAIN ReportedAt(k1)[i].m
                        /\ ReportedAt(k1)[i].m[k] = MissingKeyMessage

\* The values of the keys added to an actual value.
ExtraValues == {VUni("42"), VList(<<VInt(1)>>), VDict(Map1("a", VInt(1)))}

\* v with the key "c", which no expected value has, added to one of its dicts.
RECURSIVE Extensions(_)
Extensions(v) ==
    CASE v.t = "dict" ->
            {VDict([k \in DOMAIN v.m \cup {"c"} |-> IF k = "c" THEN x ELSE v.m[k]]) :
                x \in ExtraValues}
            \cup UNION {{VDict([v.m EXCEPT ![k] = y]) : y \in Extensions(v.m[k])} :
                        k \in DOMAIN v.m}
      [] v.t = "list" ->
            UNION {{VList([v.l EXCEPT ![i] = y]) : y \in Extensions(v.l[i])} :
                   i \in 1..Len(v.l)}
      [] OTHER -> {}

\* C5: keys that only the actual value has are never an error: when E against A
\* reports no mismatch, E against A with extra keys (at any mapping of A, with
\* values of any kind) reports no mismatch and does not raise.
C5_ExtraKeysIgnored ==
    (DictGetter /\ Returned /\ result.val = PyTrue) =>
        \A extended \in Extensions(cls.out["get_a"]) :
            CompareGetter(validation_file.content["get_a"], extended) = Ok(VDict(EmptyMap))

\* A scalar that _find_differences can tell from an absent key (get() is None
\* for both).
Present(v) == IsScalar(v) /\ v.t # "none"

\* C6: a key with scalar values in both the expected and the actual mapping is
\* reported if and only if str() of the two values differ (42 and "42" are not
\* reported), directly under the getter and in a nested mapping.
C6_ScalarRule ==
    /\ DictGetter =>
          \A k \in DOMAIN ExpectedOf("get_a") \cap DOMAIN ActualOf("get_a") :
              (IsScalar(ExpectedOf("get_a")[k]) /\ Present(ActualOf("get_a")[k])) =>
                  /\ Returned
                  /\ ReportedAt(k) # <<>> <=>
                        PyStr(ExpectedOf("get_a")[k]) # PyStr(ActualOf("get_a")[k])
    /\ \A k1 \in {"a"} :
          NestedDictAt(k1) =>
              LET e == ExpectedOf("get_a")[k1].m
                  a == ActualOf("get_a")[k1].m
              IN  \A k \in DOMAIN e \cap DOMAIN a :
                      (IsScalar(e[k]) /\ Present(a[k]) /\ Returned) =>
                          ((\E i \in 1..Len(ReportedAt(k1)) :
                               \/ ReportedAt(k1)[i].t = "dict" /\ k \in DOMAIN ReportedAt(k1)[i].m
                               \/ ReportedAt(k1)[i] = DeltaMessage(k, e, a))
                           <=> PyStr(e[k]) # PyStr(a[k]))

\* The key under which get_a's values are lists: 'not_matched' for a getter that
\* returns a list, "a" otherwise.
ListKey == IF Wrapped("get_a") THEN "not_matched" ELSE "a"

\* An expected list is compared with an actual list.
ListCase ==
    /\ OneGetter
    /\ ListKey \in DOMAIN ExpectedOf("get_a") \cap DOMAIN ActualOf("get_a")
    /\ ExpectedOf("get_a")[ListKey].t = "list"
    /\ ActualOf("get_a")[ListKey].t = "list"

ExpectedList == ExpectedOf("get_a")[ListKey].l

ActualList == ActualOf("get_a")[ListKey].l

\* C7: a scalar element e of the expected list is reported as 'Expected but not
\* found: <e>' if and only if no element of the actual list has the same str().
C7_ScalarElements ==
    (ListCase /\ Returned) =>
        \A i \in 1..Len(ExpectedList) :
            IsScalar(ExpectedList[i]) =>
                (InSeq(ReportedAt(ListKey), ListMessage(ExpectedList[i]))
                 <=> ~\E j \in 1..Len(ActualList) :
                        /\ IsScalar(ActualList[j])
                        /\ PyStr(ActualList[j]) = PyStr(ExpectedList[i]))

\* Element e of an expected list has a match among the actual items: an equal
\* item, or for a dict e a dict that holds every pair of e.
Matched(e, items) ==
    IF e.t = "dict"
    THEN \E j \in 1..Len(items) : items[j].t = "dict" /\ Delta(e.m, items[j].m) = {}
    ELSE Contains(items, e)

RECURSIVE UnmatchedMessages(_, _, _)
UnmatchedMessages(exp, i, items) ==
    IF i > Len(exp) THEN <<>>
    ELSE (IF Matched(exp[i], items) THEN <<>> ELSE <<ListMessage(exp[i])>>)
         \o UnmatchedMessages(exp, i + 1, items)

\* C8: the result of a list comparison has exactly one 'Expected but not found'
\* entry for each expected element without a match, naming it, and none for an
\* element with a match, wherever the elements are in the expected list.
C8_OneEntryPerUnmatched ==
    (ListCase /\ Returned) =>
        ReportedAt(ListKey) = UnmatchedMessages(ExpectedList, 1, ActualList)

\* C9: a dict element e of the expected list is satisfied if and only if some
\* element of the actual list is a dict with every pair of e; other fields of
\* that element, and actual elements that are not dicts or hold nested values,
\* do not make the comparison raise.
C9_DictElements ==
    ListCase =>
        \A i \in 1..Len(ExpectedList) :
            ExpectedList[i].t = "dict" =>
                /\ Returned
                /\ ~InSeq(ReportedAt(ListKey), ListMessage(ExpectedList[i]))
                      <=> \E j \in 1..Len(ActualList) :
                             /\ ActualList[j].t = "dict"
                             /\ \A k \in DOMAIN ExpectedList[i].m :
                                   /\ k \in DOMAIN ActualList[j].m
                                   /\ PyEq(ExpectedList[i].m[k], ActualList[j].m[k])

\* C10: a value compared against an identical copy of itself gives no mismatch
\* and no exception, whatever its kind and depth.
C10_SelfComparison ==
    (OneGetter /\ validation_file.content["get_a"] = cls.out["get_a"]) =>
        Returned /\ result.val = PyTrue

\* The kind of a value: Mapping, Sequence or Scalar.
Kind(v) == IF v.t = "dict" THEN "Mapping" ELSE IF v.t = "list" THEN "Sequence" ELSE "Scalar"

\* C11: a structural difference is returned as data and never raised: when the
\* expected and the actual value at a key are of different kinds (Mapping,
\* Sequence, Scalar) the comparison completes and reports a mismatch at the key.
C11_KindMismatchReported ==
    DictGetter =>
        \A k \in DOMAIN ExpectedOf("get_a") \cap DOMAIN ActualOf("get_a") :
            (/\ Kind(ExpectedOf("get_a")[k]) # Kind(ActualOf("get_a")[k])
             /\ ActualOf("get_a")[k].t # "none")
                => Returned /\ ReportedAt(k) # <<>>


\* A requested name that is not a get_ method of cls, at any position.
BadName ==
    /\ GettersGiven
    /\ \E i \in 1..Len(getters.names) :
        ~StartsWithGet(getters.names[i]) \/ getters.names[i] \notin cls.attrs

\* A supplied region other than 'running' and 'candidate'.
BadRegion == ConfigGiven /\ config[1] \notin {"running", "candidate"}

\* C12: with a requested name that is not a get_ method of cls, or a region
\* that is neither 'running' nor 'candidate', validate() never gets past the
\* checks of its arguments: the file is not opened, no getter and no
\* get_config is called, nothing is compared, and when it ends it has raised
\* ValidationException.
C12_InputCheckedFirst ==
    (BadName \/ BadRegion) =>
        /\ calls = <<>>
        /\ validation_source = EmptyMap
        /\ errors = EmptyMap
        /\ pc \in {"check_getters", "check_config", "raised"}
        /\ pc = "raised" => result.exc = "ValidationException"

\* validate() has raised for a bad name in second position, having opened and
\* called nothing.
C12_Witness ==
    /\ pc = "raised"
    /\ getters.names = <<"get_a", "get_x">>
    /\ result = RaiseValidation("get_x method not found.")
    /\ calls = <<>>


\* validate() has returned from the check of the configuration of a region.
ConfigCase == Returned /\ ConfigBranch /\ calls = <<"open_file", "get_config">>

\* The expected lines that are not among the actual lines, in expected order;
\* lines are text, equal when their characters are.
MissingLines ==
    LET actual == cls.conf[config[1]].l
        NotActual(line) == \A j \in 1..Len(actual) : actual[j].s # line.s
    IN  SelectSeq(validation_source[config[1]].l, NotActual)

\* C13: the check of the configuration returns True when every expected line
\* is one of the actual lines, and otherwise a dict with the one key 'Expected
\* but not found in <region> config' that holds the expected lines that are
\* not actual lines, in expected order, and nothing else.
C13_ConfigMembership ==
    ConfigCase =>
        IF MissingLines = <<>> THEN result = Ok(PyTrue)
        ELSE result = Ok(VDict(Map1("Expected but not found in " \o config[1] \o " config",
                                    VList(MissingLines))))

\* Two expected lines, in this order, and one actual line that is neither.
C13_Witness ==
    /\ ConfigCase
    /\ validation_source["running"] = VList(<<VStr("l2"), VStr("l1")>>)
    /\ cls.conf["running"] = VList(<<VUni("l3")>>)
    /\ result = Ok(VDict(Map1("Expected but not found in running config",
                              VList(<<VStr("l2"), VStr("l1")>>))))


\* The list comparison of the expected value of get_a with the list it returns.
SequenceRule == HandleList(cls.out["get_a"], validation_file.content["get_a"])

\* C14: when the getter returns a list, its entry in the result is
\* {'not_matched': L} with L the list that the comparison of lists gives for
\* the expected value and the returned list, the getter has no entry (the
\* result is True) when L is empty, and validate() raises what that comparison
\* raises.
C14_BareListWrapped ==
    (OneGetter /\ Wrapped("get_a")) =>
        IF SequenceRule.exc # "" THEN pc = "raised" /\ result = SequenceRule
        ELSE /\ Returned
             /\ result = IF SequenceRule.val.l = <<>> THEN Ok(PyTrue)
                         ELSE Ok(VDict(Map1("get_a",
                                 VDict(Map1("not_matched", SequenceRule.val)))))

\* Two expected elements, a number and a dict, and an empty returned list.
C14_Witness ==
    /\ OneGetter
    /\ Returned
    /\ validation_file.content["get_a"] = VList(<<VInt(42), VDict(Map1("a", VInt(1)))>>)
    /\ cls.out["get_a"] = VList(<<>>)
    /\ result = Ok(VDict(Map1("get_a", VDict(Map1("not_matched",
                  VList(<<VStr("Expected but not found: 42"),
                          VStr("Expected but not found: {'a': 1}")>>))))))


\* Key 'a' holds, in the expected value and in the output of get_a, dicts whose
\* values are all scalars: the dicts that the set difference compares.
ScalarMappings ==
    /\ NestedDictAt("a")
    /\ \A k \in DOMAIN ExpectedOf("get_a")["a"].m : IsScalar(ExpectedOf("get_a")["a"].m[k])
    /\ \A k \in DOMAIN ActualOf("get_a")["a"].m : IsScalar(ActualOf("get_a")["a"].m[k])

\* The expected keys for which the per-key rule finds a mismatch: the keys that
\* actual lacks and the keys whose two values differ as _handle_unicode_int
\* compares them.
PerKeyMismatches(expected, actual) ==
    {k \in DOMAIN expected :
        \/ k \notin DOMAIN actual
        \/ Truthy(HandleUnicodeInt(actual[k], expected[k]))}

MissingKey ==
    IF pc # "run" THEN <<>>
    ELSE IF GettersGiven
    THEN (IF idx <= Len(getters.names) /\ getters.names[idx] \notin DOMAIN validation_source
          THEN <<getters.names[idx]>> ELSE <<>>)
    ELSE IF ConfigGiven /\ config[1] \notin DOMAIN validation_source THEN <<config[1]>>
    ELSE <<>>

\* C16: when validate() comes to a requested getter (or the region) that is
\* not a key of the file, its next step raises ValidationException with a
\* message that names the key, calls nothing of cls, and that ends the run:
\* nothing is returned, whatever the errors found so far.
C16_MissingKeyAborts ==
    [][/\ MissingKey # <<>> =>
             /\ pc' = "raised"
             /\ result' = [exc |-> "ValidationException",
                           val |-> VStr(MissingKey[1]
                                        \o " key not found in validation file. Check your syntax.")]
             /\ calls' = calls
       /\ pc # "raised"]_vars

\* get_a was called and left a mismatch in errors, and get_b is not in the file.
C16_Witness ==
    /\ pc = "raised"
    /\ getters.names = <<"get_a", "get_b">>
    /\ calls = <<"open_file", "get_a">>
    /\ DOMAIN errors = {"get_a"}
    /\ "get_b" \notin DOMAIN validation_source
    /\ result = RaiseValidation("get_b key not found in validation file. Check your syntax.")


\* The labels under which the check of a configuration reports.
ConfigLabels == {"Expected but not found in " \o r \o " config" : r \in {"running", "candidate"}}

\* C17: one mode runs per call. With a non-empty getters and a region only the
\* getters are checked: get_config is never called and the result has no
\* configuration label. get_config is called only when no getters are given,
\* and then no getter is called.
C17_OneMode ==
    /\ GettersGiven =>
          /\ \A i \in 1..Len(calls) : calls[i] # "get_config"
          /\ DOMAIN errors \cap ConfigLabels = {}
          /\ (Returned /\ result.val.t = "dict") => DOMAIN result.val.m \cap ConfigLabels = {}
    /\ (\E i \in 1..Len(calls) : calls[i] = "get_config") =>
          /\ ~GettersGiven
          /\ calls = <<"open_file", "get_config">>
          /\ DOMAIN errors \subseteq ConfigLabels

\* Getters and a region were given, the getter found a mismatch and validate()
\* returned, although the running configuration lacks an expected line.
C17_Witness ==
    /\ Returned
    /\ getters.names = <<"get_a">>
    /\ config = <<"running">>
    /\ calls = <<"open_file", "get_a">>
    /\ "running" \in DOMAIN validation_source
    /\ ConfigMismatch
    /\ result.val.t = "dict"
    /\ DOMAIN result.val.m = {"get_a"}


\* No dict, list or text of v, at any depth, is empty.
RECURSIVE NonEmptyTree(_)
NonEmptyTree(v) ==
    CASE v.t = "dict" -> DOMAIN v.m # {} /\ \A k \in DOMAIN v.m : NonEmptyTree(v.m[k])
      [] v.t = "list" -> v.l # <<>> /\ \A j \in 1..Len(v.l) : NonEmptyTree(v.l[j])
      [] v.t \in {"str", "unicode"} -> v.s # ""
      [] OTHER -> TRUE

\* The error mapping that validate() returned has no empty part.
NonEmptyResult == (Returned /\ result.val.t = "dict") => NonEmptyTree(result.val)

\* The actual value a satisfies the expected value e: scalars have the same
\* str(), a dict has every expected key with a value that satisfies, a list has
\* a match for every expected element, and values of different kinds do not.
RECURSIVE Satisfies(_, _)
Satisfies(e, a) ==
    CASE IsScalar(e) /\ IsScalar(a) -> PyStr(e) = PyStr(a)
      [] e.t = "dict" /\ a.t = "dict" ->
            \A k \in DOMAIN e.m : k \in DOMAIN a.m /\ Satisfies(e.m[k], a.m[k])
      [] e.t = "list" /\ a.t = "list" ->
            \A i \in 1..Len(e.l) : \E j \in 1..Len(a.l) :
                IF e.l[i].t = "dict"
                THEN a.l[j].t = "dict" /\ \A k \in DOMAIN e.l[i].m :
                        k \in DOMAIN a.l[j].m /\ PyEq(e.l[i].m[k], a.l[j].m[k])
                ELSE Satisfies(e.l[i], a.l[j])
      [] OTHER -> FALSE

\* C18: the error mapping that validate() returns has no empty dict, list or
\* message at any depth, and each key reported for a getter is an expected
\* key that the output of the getter does not satisfy.
C18_NoEmptyBranch ==
    /\ NonEmptyResult
    /\ (DictGetter /\ Returned /\ result.val.t = "dict") =>
          \A k \in DOMAIN result.val.m["get_a"].m :
              /\ k \in DOMAIN ExpectedOf("get_a")
              /\ ~(/\ k \in DOMAIN ActualOf("get_a")
                   /\ Satisfies(ExpectedOf("get_a")[k], ActualOf("get_a")[k]))


\* The driver is opened before operation i of h: an open() came before it, with
\* no close() between the two.
OpenedBefore(h, i) ==
    \E j \in 1..(i - 1) : h[j] = "open" /\ \A m \in (j + 1)..(i - 1) : h[m] # "close"

\* The accesses of name in h made while the driver was opened.
OpenedAccesses(h, name) ==
    Cardinality({i \in 1..Len(h) : h[i] = name /\ OpenedBefore(h, i)})

\* C19: after any operations on a MockDriver the entry of calls for a get_
\* name is the number of accesses of that name made while the driver was
\* opened (no entry when there is none), and no other name has an entry; the
\* last access, when made closed, raised ConnectionClosedException and, when
\* made opened for a method of NetworkDriver, gave the method that reads the
\* file '<name>.<k>', k being the number of such accesses of the name so far.
C19_CallsCounted ==
    /\ DOMAIN driver.calls = {n \in {"get_a", "get_x"} : OpenedAccesses(history, n) > 0}
    /\ \A n \in DOMAIN driver.calls : driver.calls[n] = OpenedAccesses(history, n)
    /\ \A n \in {"get_a", "get_x"} :
          (history # <<>> /\ history[Len(history)] = n) =>
              IF ~OpenedBefore(history, Len(history))
              THEN outcome = [exc |-> "ConnectionClosedException", file |-> ""]
              ELSE n = "get_a" =>
                      outcome = [exc |-> "",
                                 file |-> "get_a." \o NatStr(OpenedAccesses(history, "get_a"))]

\* Two accesses of get_a while opened, then one after close().
C19_Witness ==
    /\ history = <<"open", "get_a", "get_a", "close", "get_a">>
    /\ driver.calls = [n \in {"get_a"} |-> 2]
    /\ outcome.exc = "ConnectionClosedException"

\* The object has is_alive and a true auto_reconnect.
Reconnects == {"is_alive", "auto_reconnect"} \subseteq driver.attrs /\ driver.auto_reconnect

\* C20: a call of a wrapped method on an object with is_alive and a true
\* auto_reconnect whose connection is down calls open() once and then the
\* method; on an object with a false auto_reconnect, or without one of the two
\* attributes, it calls the method only; the method is called once with the
\* arguments of the call.
C20_ReopensWhenDown ==
    wrapper.log # <<>> =>
        /\ (Reconnects /\ wrapper.down) => wrapper.log = <<OpenCall, FunCall(wrapper.args)>>
        /\ ~Reconnects => wrapper.log = <<FunCall(wrapper.args)>>
        /\ Cardinality({i \in 1..Len(wrapper.log) : wrapper.log[i].call = "fun"}) = 1
        /\ wrapper.log[Len(wrapper.log)] = FunCall(wrapper.args)

====
